---- MODULE Spec2Model ----
(***************************************************************************)
(* Model of the HTTP transport of Ollama-Native: FetchClient (request,      *)
(* postStream, abort, the NDJSON stream iterator) and the AbortController   *)
(* wrapper it arms for every attempt.                                       *)
(*                                                                         *)
(* One action is one JavaScript turn: an external event (a call by the     *)
(* user, a fetch settling, a timer firing, a consumer pull) together with  *)
(* the synchronous code that runs up to the next await or yield.           *)
(***************************************************************************)
EXTENDS Integers, Sequences, FiniteSets, TLC

VARIABLES
  service,            \* the OllamaService being constructed: its config, state and error
  retries,            \* this.config.retries
  response,           \* call -> the headers of the last 2xx response request() received
  endpoint,           \* call -> the endpoint the call was given ("" before it starts)
  cause,              \* call -> lastError.message, as the pieces it is assembled from
  chat,               \* call -> the chat()/generate() call consuming the stream, if any
  message,            \* call -> the message of the error the call rejected with
  result,             \* call -> what parseResponse() made of it, and whether it read the body
  currentController,  \* this.currentController: 0 is null, else a token id
  aborted,            \* token id -> controller.signal.aborted
  timeoutId,          \* token id -> the token's timeoutId field is not null
  timers,             \* token id -> number of host timers the token armed, not yet cleared or fired
  nextToken,          \* number of AbortController objects created so far
  pc,                 \* call -> position of the call (and of its stream iterator)
  kind,               \* call -> "request" | "stream" | "none" (not started)
  attempt,            \* call -> the loop variable `attempt`
  signal,             \* call -> token whose signal the current fetch was given
  lastError,          \* call -> the local `lastError`
  thrown,             \* call -> the error the call rejected with
  rest,               \* call -> body bytes the reader has not delivered yet
  pending,            \* call -> bytes held inside the streaming TextDecoder
  buffer,             \* call -> the local `buffer`
  lines,              \* call -> lines of the current chunk not yet processed
  yielded,            \* call -> events handed to the consumer so far
  readerLocked,       \* call -> the iterator holds the reader lock
  attempts,           \* history: call -> number of fetch() calls issued
  waits,              \* history: call -> number of waitForRetry() calls
  delays,             \* history: call -> the delays waitForRetry() waited, in order
  body0,              \* history: call -> the whole body of the 2xx response
  sawEnd,             \* history: call -> reader.read() reported done
  abortInvoked,       \* history: call -> abort() was invoked in flight / in backoff
  abortedAt,          \* history: call -> Len(yielded) when abort() returned true, or -1
  observedAt,         \* history: call -> Len(yielded) when the loop saw the token cancelled, or -1
  outcomes,           \* history: call -> the errors its failed attempts were caught with
  chunks,             \* history: call -> the sizes of the chunks reader.read() delivered
  streamError,        \* call -> the error the stream iterator threw to its consumer
  abortLog,           \* history: what the last turn that called abort() saw and returned
  lastCtl,            \* history: the last direct call on an AbortController and the token before it
  cancelledAt         \* history: call -> Len(yielded) when its token fired between pulls, or -1

tokenVars  == <<currentController, aborted, timeoutId, timers, nextToken>>
callVars   == <<pc, kind, attempt, signal, lastError, thrown>>
streamVars == <<rest, pending, buffer, lines, yielded, readerLocked>>
histVars   == <<attempts, waits, delays, body0, sawEnd, abortInvoked, abortedAt, observedAt>>
logVars    == <<outcomes, chunks>>
obsVars    == <<streamError, abortLog, cancelledAt, lastCtl>>
cfgVars    == <<service, retries>>
respVars   == <<response, result>>
msgVars    == <<endpoint, cause, message>>
chatVars   == <<chat>>
vars       == <<cfgVars, chatVars, respVars, msgVars, tokenVars, callVars, streamVars, histVars, logVars,
                obsVars>>

----------------------------------------------------------------------------
(* Bounds *)

MaxRetries == 2
MaxBody == 4
MaxWaits == 4
MaxCtl == 3

Calls == {1, 2}
MaxTokens == Cardinality(Calls) * (MaxRetries + 2)
TokenIds == 1..MaxTokens

(* HTTP statuses of non-2xx responses the server may answer with *)
FailStatuses == {404, 500}

(* Endpoints a call may be given *)
Endpoints == {"/api/generate", "/api/tags"}

(* Bytes of a response body: ASCII '1', space, '"', '\n', and the two bytes   *)
(* 0xC3 0xA9 of the UTF-8 encoding of U+00E9.                                 *)
Bytes == {"1", "SP", "QT", "LF", "C3", "A9"}

----------------------------------------------------------------------------
(* Errors *)

NoError == [name |-> "none", status |-> 0]
HttpError(status) == [name |-> "OllamaError", status |-> status]
AbortError == [name |-> "AbortError", status |-> 0]
NetworkError == [name |-> "TypeError", status |-> 0]
SyntaxError == [name |-> "SyntaxError", status |-> 0]

(* Error messages, as the sequence of pieces the text is assembled from *)
StatusText(status) ==
  CASE status = 404 -> "Not Found"
    [] status = 500 -> "Internal Server Error"
    [] OTHER -> ""

(* `HTTP ${response.status}: ${response.statusText}` *)
HttpMessage(status) == <<"HTTP ", ToString(status), ": ", StatusText(status)>>

NoBodyMessage == <<"Response body is null">>

(* The message of an error the host raised (fetch, the reader, json()) *)
HostMessage(err) ==
  CASE err.name = "AbortError" -> <<"This operation was aborted">>
    [] err.name = "TypeError" -> <<"fetch failed">>
    [] err.name = "SyntaxError" -> <<"Unexpected token in JSON">>
    [] OTHER -> <<>>

(* The message of what request() (k = "request") or postStream() finally    *)
(* throws for the last error err whose message is msg                       *)
FinalMessage(k, err, msg) ==
  IF err.name = "OllamaError" THEN msg
  ELSE <<IF k = "request" THEN "Request failed: " ELSE "Stream request failed: ">> \o msg

(* The final throw with every failure wrapped in a new generic error *)
NormalizeAlwaysWraps(err) == HttpError(500)

(* request() lines 98-104 / postStream() lines 310-316: what is finally thrown *)
Normalize(err) ==
  IF err.name = "OllamaError" THEN err ELSE HttpError(500)

----------------------------------------------------------------------------
(* Text: TextDecoder, split, trim, JSON.parse on the byte alphabet above *)

RECURSIVE DecodeBytes(_, _, _)
(* decoder.decode(value, {stream: true}): UTF-8 decoding that keeps an      *)
(* unfinished multi-byte sequence in `pend` for the next call.              *)
DecodeBytes(pend, bytes, out) ==
  IF bytes = <<>> THEN [text |-> out, pend |-> pend]
  ELSE LET b == Head(bytes) IN
    IF pend = <<>>
      THEN IF b = "C3" THEN DecodeBytes(<<b>>, Tail(bytes), out)
           ELSE IF b = "A9" THEN DecodeBytes(<<>>, Tail(bytes), Append(out, "FFFD"))
           ELSE DecodeBytes(<<>>, Tail(bytes), Append(out, b))
      ELSE IF b = "A9" THEN DecodeBytes(<<>>, Tail(bytes), Append(out, "E9"))
           ELSE DecodeBytes(<<>>, bytes, Append(out, "FFFD"))

StreamDecode(pend, chunk) == DecodeBytes(pend, chunk, <<>>)

RECURSIVE SplitLF(_, _)
(* buffer.split('\n'): always at least one piece *)
SplitLF(text, cur) ==
  IF text = <<>> THEN <<cur>>
  ELSE IF Head(text) = "LF" THEN <<cur>> \o SplitLF(Tail(text), <<>>)
  ELSE SplitLF(Tail(text), Append(cur, Head(text)))

Split(text) == SplitLF(text, <<>>)

RECURSIVE TrimLeft(_)
TrimLeft(s) ==
  IF s # <<>> /\ Head(s) \in {"SP", "LF"} THEN TrimLeft(Tail(s)) ELSE s

RECURSIVE TrimRight(_)
TrimRight(s) ==
  IF s # <<>> /\ s[Len(s)] \in {"SP", "LF"} THEN TrimRight(SubSeq(s, 1, Len(s) - 1)) ELSE s

Trim(s) == TrimRight(TrimLeft(s))

(* Whether JSON.parse(t) succeeds: a number made of digits, a string, or    *)
(* one of the objects {"done":true} and {"done":false}, whose text the      *)
(* symbols "DT" and "DF" stand for                                          *)
JSONValid(t) ==
  /\ t # <<>>
  /\ \/ \A i \in 1..Len(t) : t[i] = "1"
     \/ t \in {<<"DT">>, <<"DF">>}
     \/ /\ Len(t) >= 2
        /\ t[1] = "QT"
        /\ t[Len(t)] = "QT"
        /\ \A i \in 2..(Len(t) - 1) : t[i] \notin {"QT", "LF"}

RECURSIVE Ones(_)
Ones(n) == IF n = 0 THEN 0 ELSE 10 * Ones(n - 1) + 1

(* JSON.parse(t) for a valid t *)
JSONParse(t) ==
  IF t[1] \in {"DT", "DF"}
    THEN [kind |-> "object", val |-> <<IF t[1] = "DT" THEN "done:true" ELSE "done:false">>]
  ELSE IF t[1] = "QT"
    THEN [kind |-> "string", val |-> SubSeq(t, 2, Len(t) - 1)]
    ELSE [kind |-> "number", val |-> <<Ones(Len(t))>>]

RECURSIVE SkipUnparsed(_)
(* processStreamLines(): advance over blank and unparseable lines; the      *)
(* result starts with the next line that yields, or is empty.               *)
SkipUnparsed(ls) ==
  IF ls = <<>> THEN <<>>
  ELSE IF Trim(Head(ls)) # <<>> /\ JSONValid(Trim(Head(ls))) THEN ls
  ELSE SkipUnparsed(Tail(ls))

----------------------------------------------------------------------------
(* Configuration values and their validation (Validator.ts) *)

(* A JavaScript value: its typeof, and its text or its number *)
Undefined == [type |-> "undefined", str |-> "", num |-> 0]
Null == [type |-> "object", str |-> "null", num |-> 0]
Obj == [type |-> "object", str |-> "{}", num |-> 0]
Str(x) == [type |-> "string", str |-> x, num |-> 0]
Num(n) == [type |-> "number", str |-> "", num |-> n]
NaN == [type |-> "number", str |-> "NaN", num |-> 0]

(* JavaScript v < n and v > n on a number v: both false when v is NaN *)
Less(v, n) == v # NaN /\ v.num < n
Greater(v, n) == v # NaN /\ v.num > n

(* new URL(text) for the host strings of the model: whether it parses, and  *)
(* the protocol, hostname and port (-1 for none) of the parsed URL          *)
NotAURL == [ok |-> FALSE, protocol |-> "", hostname |-> "", port |-> -1, endsColon |-> FALSE]

URLParse(text) ==
  CASE text = "http://localhost:11434" ->
         [ok |-> TRUE, protocol |-> "http:", hostname |-> "localhost", port |-> 11434,
          endsColon |-> FALSE]
    [] text = "https://example.com" ->
         [ok |-> TRUE, protocol |-> "https:", hostname |-> "example.com", port |-> -1,
          endsColon |-> FALSE]
    [] text = "ftp://example.com" ->
         [ok |-> TRUE, protocol |-> "ftp:", hostname |-> "example.com", port |-> -1,
          endsColon |-> FALSE]
    [] text = "localhost:11434" ->
         [ok |-> TRUE, protocol |-> "localhost:", hostname |-> "", port |-> -1,
          endsColon |-> FALSE]
    [] text = "http://localhost:" ->
         [ok |-> TRUE, protocol |-> "http:", hostname |-> "localhost", port |-> -1,
          endsColon |-> TRUE]
    [] text = "http://localhost:0" ->
         [ok |-> TRUE, protocol |-> "http:", hostname |-> "localhost", port |-> 0,
          endsColon |-> FALSE]
    [] OTHER -> NotAURL

HostTexts ==
  {"", "not a url", "http://localhost:11434", "https://example.com", "ftp://example.com",
   "localhost:11434", "http://localhost:", "http://localhost:0"}

(* JavaScript !v *)
Falsy(v) ==
  \/ v.type = "undefined"
  \/ v = Null
  \/ v.type = "string" /\ v.str = ""
  \/ v.type = "number" /\ (v.num = 0 \/ v = NaN)

(* isValidURL(url) *)
isValidURL(url) ==
  IF Falsy(url) \/ url.type # "string" THEN FALSE
  ELSE LET parsedUrl == URLParse(url.str) IN
       IF ~parsedUrl.ok THEN FALSE
       ELSE IF parsedUrl.protocol \notin {"http:", "https:"} THEN FALSE
       ELSE IF parsedUrl.hostname = "" THEN FALSE
       ELSE IF parsedUrl.endsColon THEN FALSE
       ELSE IF parsedUrl.port # -1 /\ (parsedUrl.port < 1 \/ parsedUrl.port > 65535) THEN FALSE
       ELSE TRUE

(* isValidConfig(config): the error it throws, or none when it returns true *)
isValidConfig(config) ==
  IF Falsy(config.host) \/ config.host.type # "string" THEN [name |-> "OllamaError", status |-> 400]
  ELSE IF ~isValidURL(config.host) THEN [name |-> "OllamaError", status |-> 400]
  ELSE IF /\ config.timeout # Undefined
          /\ (\/ config.timeout.type # "number"
              \/ Less(config.timeout, 1000)
              \/ Greater(config.timeout, 86400000))
    THEN [name |-> "OllamaError", status |-> 400]
  ELSE IF config.retries # Undefined /\ (config.retries.type # "number" \/ Less(config.retries, 0))
    THEN [name |-> "OllamaError", status |-> 400]
  ELSE IF config.headers # Undefined /\ (config.headers.type # "object" \/ config.headers = Null)
    THEN [name |-> "OllamaError", status |-> 400]
  ELSE [name |-> "none", status |-> 0]

(* An OllamaService built from a valid configuration with the given retries *)
BuiltWith(r) ==
  [state |-> "built",
   config |-> [host |-> Str("http://localhost:11434"), timeout |-> Undefined,
               retries |-> Num(r), headers |-> Undefined],
   error |-> [name |-> "none", status |-> 0]]

----------------------------------------------------------------------------
(* AbortController wrapper (Controller.ts) and the client's token slot *)

Upd(f, c, v) == [f EXCEPT ![c] = v]

(* The helpers below transform a record s that holds the tokens' fields:   *)
(* s.tid (timeoutId), s.tm (host timers outstanding), where present s.ab    *)
(* (signal.aborted) and s.cur (the client's currentController).             *)

(* clearTimeout() that forgets the host timer and only nulls the field *)
clearTimeoutKeepsHostTimer(s, t) ==
  [s EXCEPT !.tid[t] = FALSE]

(* AbortController.clearTimeout(): the host timer timeoutId names is        *)
(* cancelled and timeoutId becomes null                                     *)
clearTimeout(s, t) ==
  IF s.tid[t]
    THEN [s EXCEPT !.tid[t] = FALSE, !.tm[t] = @ - 1]
    ELSE s

(* setTimeout() that arms without clearing the previous timer *)
setTimeoutNoClear(s, t) ==
  [s EXCEPT !.tid[t] = TRUE, !.tm[t] = @ + 1]

(* AbortController.setTimeout(timeout): clearTimeout(), then a new host     *)
(* timer whose id is kept in timeoutId                                      *)
setTimeout(s, t) ==
  [clearTimeout(s, t) EXCEPT !.tid[t] = TRUE, !.tm[t] = @ + 1]

(* abort() that does not clear the timer *)
ctlAbortKeepsTimer(s, t) ==
  [s EXCEPT !.ab[t] = TRUE]

(* AbortController.abort(): clearTimeout(), controller.abort() *)
ctlAbort(s, t) ==
  [clearTimeout(s, t) EXCEPT !.ab[t] = TRUE]

(* The client's slot and the timers, as one value the helpers transform *)
Now == [cur |-> currentController, tid |-> timeoutId, tm |-> timers]

(* cleanupController() that drops the token without clearing its timer *)
cleanupControllerKeepsTimer(ts) ==
  IF ts.cur # 0
    THEN [ts EXCEPT !.cur = 0]
    ELSE ts

(* FetchClient.cleanupController() *)
cleanupController(ts) ==
  IF ts.cur # 0
    THEN [clearTimeout(ts, ts.cur) EXCEPT !.cur = 0]
    ELSE ts

SetTokens(ts) ==
  /\ currentController' = ts.cur
  /\ timeoutId' = ts.tid
  /\ timers' = ts.tm

(* waitForRetry() without the cap *)
waitForRetryUncapped(a) == 1000 * 2^a

(* FetchClient.waitForRetry(attempt): the delay it waits, in milliseconds *)
waitForRetry(a) ==
  IF 1000 * 2^a < 5000 THEN 1000 * 2^a ELSE 5000

(* One token's fields *)
Tok(t) == [timeoutId |-> timeoutId[t], timers |-> timers[t], aborted |-> aborted[t]]

NoCtl == [op |-> "none", t |-> 0,
          pre |-> [timeoutId |-> FALSE, timers |-> 0, aborted |-> FALSE]]

(* FetchClient.isActive *)
isActive == currentController # 0

(* FetchClient.shouldAbortStream() *)
shouldAbortStream ==
  IF currentController = 0 THEN FALSE ELSE aborted[currentController]

(* shouldRetry() without the AbortError test *)
shouldRetryIgnoringAbort(error, a) == a < retries

(* shouldRetry() with an off-by-one budget test *)
shouldRetryOneFewer(error, a) ==
  IF error.name = "AbortError" THEN FALSE ELSE a + 1 < retries

(* shouldRetry() that also retries after the last attempt of the budget *)
shouldRetryOneMore(error, a) ==
  IF error.name = "AbortError" THEN FALSE ELSE a <= retries

(* FetchClient.shouldRetry(error, attempt) *)
shouldRetry(error, a) ==
  IF error.name = "AbortError" THEN FALSE ELSE a < retries

(* The loop condition of request() and postStream(): attempt <= retries *)
LoopCond(a) == a <= retries

----------------------------------------------------------------------------
(* Positions *)

InFlight == {"fetching", "connecting"}
StreamOpen == {"open", "reading", "yielded", "flushed"}
StreamEnded == {"done", "failed", "abandoned"}
Suspended == {"open", "yielded", "flushed"}
InProgress == InFlight \cup {"backoff", "parsing"} \cup StreamOpen

(* A logical call is in progress on the client *)
Busy == \E c \in Calls : pc[c] \in InProgress

----------------------------------------------------------------------------
(* The retry loop shared by request() and postStream() *)

(* An attempt that keeps the AbortController of the previous attempt *)
NewAttemptReusesToken(c, k, a) ==
  LET t == IF signal[c] # 0 THEN signal[c] ELSE nextToken + 1 IN
  /\ nextToken' = IF t > nextToken THEN t ELSE nextToken
  /\ SetTokens([setTimeout(Now, t) EXCEPT !.cur = t])
  /\ signal' = Upd(signal, c, t)
  /\ attempt' = Upd(attempt, c, a)
  /\ attempts' = Upd(attempts, c, attempts[c] + 1)
  /\ pc' = Upd(pc, c, IF k = "request" THEN "fetching" ELSE "connecting")
  /\ UNCHANGED aborted

(* A new attempt: new AbortController(), setTimeout(timeout), fetch(...) *)
NewAttempt(c, k, a) ==
  LET t == nextToken + 1 IN
  /\ nextToken' = t
  /\ SetTokens([setTimeout(Now, t) EXCEPT !.cur = t])
  /\ signal' = Upd(signal, c, t)
  /\ attempt' = Upd(attempt, c, a)
  /\ attempts' = Upd(attempts, c, attempts[c] + 1)
  /\ pc' = Upd(pc, c, IF k = "request" THEN "fetching" ELSE "connecting")
  /\ UNCHANGED aborted

(* A catch block that swallows the final error and returns a value *)
CatchReturnsPlaceholder(c, err, msg, ts) ==
  /\ lastError' = Upd(lastError, c, err)
  /\ cause' = Upd(cause, c, msg)
  /\ outcomes' = Upd(outcomes, c, Append(outcomes[c], err))
  /\ SetTokens(cleanupController(ts))
  /\ IF shouldRetry(err, attempt[c])
       THEN /\ pc' = Upd(pc, c, "backoff")
            /\ waits' = Upd(waits, c, waits[c] + 1)
            /\ delays' = Upd(delays, c, Append(delays[c], waitForRetry(attempt[c])))
            /\ UNCHANGED <<thrown, message>>
       ELSE /\ pc' = Upd(pc, c, "returned")
            /\ UNCHANGED <<thrown, message, waits, delays>>
  /\ UNCHANGED <<cfgVars, chatVars, respVars, endpoint, aborted, nextToken, kind, attempt, signal, streamVars,
                 attempts, body0, sawEnd, abortInvoked, abortedAt, observedAt, chunks, obsVars>>

(* The catch block: lastError = error; cleanupController(); retry or break, *)
(* and after a break the throw that follows the loop.  `ts` is the token    *)
(* state the try block left behind.                                         *)
Catch(c, err, msg, ts) ==
  /\ lastError' = Upd(lastError, c, err)
  /\ cause' = Upd(cause, c, msg)
  /\ outcomes' = Upd(outcomes, c, Append(outcomes[c], err))
  /\ SetTokens(cleanupController(ts))
  /\ IF shouldRetry(err, attempt[c])
       THEN /\ pc' = Upd(pc, c, "backoff")
            /\ waits' = Upd(waits, c, waits[c] + 1)
            /\ delays' = Upd(delays, c, Append(delays[c], waitForRetry(attempt[c])))
            /\ UNCHANGED <<thrown, message>>
       ELSE /\ pc' = Upd(pc, c, "thrown")
            /\ thrown' = Upd(thrown, c, Normalize(err))
            /\ message' = Upd(message, c, FinalMessage(kind[c], err, msg))
            /\ UNCHANGED <<waits, delays>>
  /\ UNCHANGED <<cfgVars, chatVars, respVars, endpoint, aborted, nextToken, kind, attempt, signal, streamVars,
                 attempts, body0, sawEnd, abortInvoked, abortedAt, observedAt, chunks, obsVars>>

(* request(endpoint, options) is called: first iteration up to await fetch *)
StartRequest(c, e) ==
  /\ pc[c] = "idle"
  /\ LoopCond(0)
  /\ kind' = Upd(kind, c, "request")
  /\ endpoint' = Upd(endpoint, c, e)
  /\ NewAttempt(c, "request", 0)
  /\ UNCHANGED <<cfgVars, chatVars, respVars, cause, message, lastError, thrown, streamVars, waits, delays, body0, sawEnd,
                 abortInvoked, abortedAt, observedAt, logVars, obsVars>>

(* postStream(endpoint, data, options) is called *)
StartStream(c, e) ==
  /\ pc[c] = "idle"
  /\ LoopCond(0)
  /\ kind' = Upd(kind, c, "stream")
  /\ endpoint' = Upd(endpoint, c, e)
  /\ NewAttempt(c, "stream", 0)
  /\ UNCHANGED <<cfgVars, chatVars, respVars, cause, message, lastError, thrown, streamVars, waits, delays, body0, sawEnd,
                 abortInvoked, abortedAt, observedAt, logVars, obsVars>>

(* The loop without its attempt++ *)
BackoffDoneNoIncrement(c) ==
  /\ pc[c] = "backoff"
  /\ attempts[c] <= MaxRetries + 1
  /\ NewAttempt(c, kind[c], attempt[c])
  /\ UNCHANGED <<cfgVars, chatVars, respVars, msgVars, kind, lastError, thrown, streamVars, waits, delays, body0, sawEnd,
                 abortInvoked, abortedAt, observedAt, logVars, obsVars>>

(* waitForRetry() resolves: attempt++, loop condition, next attempt *)
BackoffDone(c) ==
  /\ pc[c] = "backoff"
  /\ nextToken < MaxTokens
  /\ IF LoopCond(attempt[c] + 1)
       THEN /\ NewAttempt(c, kind[c], attempt[c] + 1)
            /\ UNCHANGED <<thrown, message>>
       ELSE /\ pc' = Upd(pc, c, "thrown")
            /\ thrown' = Upd(thrown, c, Normalize(lastError[c]))
            /\ message' = Upd(message, c, FinalMessage(kind[c], lastError[c], cause[c]))
            /\ UNCHANGED <<tokenVars, signal, attempt, attempts>>
  /\ UNCHANGED <<cfgVars, chatVars, respVars, endpoint, cause, kind, lastError, streamVars, waits, delays, body0, sawEnd,
                 abortInvoked, abortedAt, observedAt, logVars, obsVars>>

----------------------------------------------------------------------------
(* request(): one attempt (executeRequest, parseResponse) *)

(* fetch resolved with a non-2xx response: cleanupController(), throw       *)
(* OllamaError(response.status), caught by request()                        *)
RequestHttpError(c, status) ==
  /\ pc[c] = "fetching"
  /\ ~aborted[signal[c]]
  /\ Catch(c, HttpError(status), HttpMessage(status), cleanupController(Now))

(* The headers of a 2xx response that parseResponse() reads; "null" is the  *)
(* null that Headers.get() returns for a header that is absent              *)
ContentLengths == {"null", "0", "17"}
ContentTypes ==
  {"null", "application/json", "application/json; charset=utf-8", "text/plain"}
Responses == [contentLength : ContentLengths, contentType : ContentTypes]

(* contentType.includes('application/json') *)
IncludesJson(contentType) ==
  contentType \in {"application/json", "application/json; charset=utf-8"}

NoResponse == [contentLength |-> "none", contentType |-> "none"]
NoResult == [how |-> "none", bodyRead |-> FALSE]

(* parseResponse() with no content-length test *)
parseResponseIgnoresLength(resp) ==
  IF resp.contentType = "null" THEN "marker"
  ELSE IF resp.contentType # "null"
    THEN IF IncludesJson(resp.contentType) THEN "json" ELSE "text"
  ELSE "invalid"

(* parseResponse(response): what it returns: the marker {status:'success'}, *)
(* await response.json(), await response.text(), or the OllamaError(400) of *)
(* its last line                                                            *)
parseResponse(resp) ==
  IF resp.contentLength = "0" \/ resp.contentType = "null" THEN "marker"
  ELSE IF resp.contentType # "null"
    THEN IF IncludesJson(resp.contentType) THEN "json" ELSE "text"
  ELSE "invalid"

(* fetch resolved 2xx: cleanupController(), then parseResponse(): either    *)
(* the implicit success marker at once, or await response.json()/text()     *)
RequestOk(c, resp) ==
  /\ pc[c] = "fetching"
  /\ ~aborted[signal[c]]
  /\ SetTokens(cleanupController(Now))
  /\ response' = Upd(response, c, resp)
  /\ LET how == parseResponse(resp) IN
     IF how = "marker"
       THEN /\ pc' = Upd(pc, c, "returned")
            /\ result' = Upd(result, c, [how |-> "marker", bodyRead |-> FALSE])
       ELSE /\ how \in {"json", "text"}
            /\ pc' = Upd(pc, c, "parsing")
            /\ result' = Upd(result, c, [how |-> how, bodyRead |-> TRUE])
  /\ UNCHANGED <<cfgVars, chatVars, msgVars, aborted, nextToken, kind, attempt, signal, lastError,
                 thrown, streamVars, histVars, logVars, obsVars>>

(* fetch rejected: AbortError once the signal is aborted, else a network    *)
(* error; caught by request() or postStream()                               *)
FetchReject(c) ==
  /\ pc[c] \in InFlight
  /\ LET err == IF aborted[signal[c]] THEN AbortError ELSE NetworkError
     IN Catch(c, err, HostMessage(err), Now)

(* response.json() / response.text() resolved: request() returns *)
ParseResolve(c) ==
  /\ pc[c] = "parsing"
  /\ ~aborted[signal[c]]
  /\ pc' = Upd(pc, c, "returned")
  /\ UNCHANGED <<cfgVars, chatVars, respVars, msgVars, tokenVars, kind, attempt, signal, lastError, thrown,
                 streamVars, histVars, logVars, obsVars>>

(* response.json() / response.text() rejected; caught by request() *)
ParseReject(c, err) ==
  /\ pc[c] = "parsing"
  /\ IF aborted[signal[c]] THEN err = AbortError ELSE err \in {SyntaxError, NetworkError}
  /\ err = SyntaxError => result[c].how = "json"
  /\ Catch(c, err, HostMessage(err), Now)

----------------------------------------------------------------------------
(* Cancellation *)

(* abort() without its cleanupController() *)
clientAbortKeepsToken(st) ==
  IF st.cur # 0
    THEN LET a == ctlAbort([tid |-> st.tid, tm |-> st.tm, ab |-> st.ab], st.cur)
         IN [cur |-> st.cur, tid |-> a.tid, tm |-> a.tm, ab |-> a.ab, ret |-> TRUE]
    ELSE [cur |-> st.cur, tid |-> st.tid, tm |-> st.tm, ab |-> st.ab, ret |-> FALSE]

(* FetchClient.abort() on the state st = [cur, tid, tm, ab]: the state it   *)
(* leaves and the value it returns                                          *)
clientAbort(st) ==
  IF st.cur # 0
    THEN LET a == ctlAbort([cur |-> st.cur, tid |-> st.tid, tm |-> st.tm, ab |-> st.ab],
                           st.cur)
             ts == cleanupController(a)
         IN [cur |-> ts.cur, tid |-> ts.tid, tm |-> ts.tm, ab |-> ts.ab, ret |-> TRUE]
    ELSE [cur |-> st.cur, tid |-> st.tid, tm |-> st.tm, ab |-> st.ab, ret |-> FALSE]

(* The client's fields that abort() reads and writes *)
ClientState ==
  [cur |-> currentController, tid |-> timeoutId, tm |-> timers, ab |-> aborted]

SetClient(r) ==
  /\ aborted' = r.ab
  /\ currentController' = r.cur
  /\ timeoutId' = r.tid
  /\ timers' = r.tm

(* What a turn of user code that called abort() saw: r1 is the outcome of   *)
(* its first call, rets the values returned in order                        *)
AbortObserved(r1, rets, same) ==
  /\ abortLog' = [rets   |-> rets,
                  busy   |-> Busy,
                  active |-> isActive,
                  fired  |-> currentController # 0 /\ r1.ab[currentController],
                  same   |-> same]
  /\ abortInvoked' = [c \in Calls |->
       abortInvoked[c] \/ pc[c] \in InFlight \cup {"backoff"}]
  /\ abortedAt' = [c \in Calls |->
       IF currentController # 0 /\ pc[c] \in StreamOpen /\ abortedAt[c] = -1
         THEN Len(yielded[c]) ELSE abortedAt[c]]
  /\ cancelledAt' = [c \in Calls |->
       IF /\ currentController # 0 /\ currentController = signal[c]
          /\ pc[c] \in Suspended /\ cancelledAt[c] = -1
         THEN Len(yielded[c]) ELSE cancelledAt[c]]
  /\ UNCHANGED <<cfgVars, chatVars, respVars, msgVars, nextToken, callVars, streamVars, attempts, waits, delays, body0,
                 sawEnd, observedAt, logVars, streamError, lastCtl>>

(* FetchClient.abort(), called by the user at any time *)
Abort ==
  LET r1 == clientAbort(ClientState)
  IN /\ SetClient(r1)
     /\ AbortObserved(r1, <<r1.ret>>, TRUE)

(* abort() called twice in a row, nothing else running in between *)
AbortTwice ==
  LET r1 == clientAbort(ClientState)
      r2 == clientAbort(r1)
  IN /\ SetClient(r2)
     /\ AbortObserved(r1, <<r1.ret, r2.ret>>, r2 = [r1 EXCEPT !.ret = FALSE])

(* A host timer armed by AbortController.setTimeout() fires and its        *)
(* callback runs this.abort().  The timer that fires is the one timeoutId   *)
(* names (then the clearTimeout() inside abort() finds it already gone and  *)
(* only sets timeoutId to null) or another outstanding timer of the token.  *)
TimerFire(t) ==
  /\ timers[t] > 0
  /\ \E named \in BOOLEAN :
       /\ named => timeoutId[t]
       /\ ~named => timers[t] > (IF timeoutId[t] THEN 1 ELSE 0)
       /\ LET gone == [tid |-> IF named THEN [timeoutId EXCEPT ![t] = FALSE] ELSE timeoutId,
                       tm  |-> [timers EXCEPT ![t] = @ - 1],
                       ab  |-> aborted]
              r == ctlAbort(gone, t)
          IN /\ timeoutId' = r.tid
             /\ timers' = r.tm
             /\ aborted' = r.ab
  /\ cancelledAt' = [c \in Calls |->
       IF signal[c] = t /\ pc[c] \in Suspended /\ cancelledAt[c] = -1
         THEN Len(yielded[c]) ELSE cancelledAt[c]]
  /\ UNCHANGED <<cfgVars, chatVars, respVars, msgVars, currentController, nextToken, callVars, streamVars, histVars,
                 logVars, streamError, abortLog, lastCtl>>

----------------------------------------------------------------------------
(* postStream(): one attempt (executeStreamRequest) *)

(* Bodies a 2xx streaming response may carry in the transport model *)
MainBodies ==
  { <<>>,
    <<"1", "LF", "1", "1", "LF">>,
    <<"1", "LF", "1">> }

(* fetch resolved with a non-2xx response: cleanupController(), throw *)
StreamHttpError(c, status) ==
  /\ pc[c] = "connecting"
  /\ ~aborted[signal[c]]
  /\ Catch(c, HttpError(status), HttpMessage(status), cleanupController(Now))

(* A missing body reported as a client error *)
StreamNoBodyAsBadRequest(c) ==
  /\ pc[c] = "connecting"
  /\ ~aborted[signal[c]]
  /\ Catch(c, HttpError(400), NoBodyMessage, cleanupController(Now))

(* fetch resolved 2xx without a body: cleanupController(), throw 500 *)
StreamNoBody(c) ==
  /\ pc[c] = "connecting"
  /\ ~aborted[signal[c]]
  /\ Catch(c, HttpError(500), NoBodyMessage, cleanupController(Now))

(* A successful connection that cleans the token up as request() does *)
StreamOkDisarms(c, body) ==
  /\ pc[c] = "connecting"
  /\ ~aborted[signal[c]]
  /\ pc' = Upd(pc, c, "open")
  /\ rest' = Upd(rest, c, body)
  /\ body0' = Upd(body0, c, body)
  /\ SetTokens(cleanupController(Now))
  /\ UNCHANGED <<cfgVars, chatVars, respVars, msgVars, aborted, nextToken, kind, attempt, signal,
                 lastError, thrown, pending, buffer, lines, yielded, readerLocked,
                 attempts, waits, delays, sawEnd, abortInvoked, abortedAt, observedAt, logVars, obsVars>>

(* fetch resolved 2xx with a body: createStreamIterator(response.body) is   *)
(* called, which only creates the generator object, and postStream returns *)
StreamOk(c, body) ==
  /\ pc[c] = "connecting"
  /\ ~aborted[signal[c]]
  /\ pc' = Upd(pc, c, "open")
  /\ rest' = Upd(rest, c, body)
  /\ body0' = Upd(body0, c, body)
  /\ UNCHANGED <<cfgVars, chatVars, respVars, msgVars, tokenVars, kind, attempt, signal, lastError, thrown,
                 pending, buffer, lines, yielded, readerLocked,
                 attempts, waits, delays, sawEnd, abortInvoked, abortedAt, observedAt, logVars, obsVars>>

----------------------------------------------------------------------------
(* createStreamIterator(): the generator body, one resumption at a time.    *)
(* A resumption is computed as a record: the position it stops at, the      *)
(* locals it leaves, the event it yields (out), whether shouldAbortStream() *)
(* was seen true (observed) and whether the finally block ran (final).      *)

Resume(p, ls, buf, out, obs, fin) ==
  [pc |-> p, lines |-> ls, buffer |-> buf, out |-> out, observed |-> obs, final |-> fin,
   err |-> NoError]

(* An exception leaves the generator body: the finally block runs and the   *)
(* consumer's pending next() rejects with err                               *)
Throw(buf, err) ==
  [Resume("failed", <<>>, buf, <<>>, FALSE, TRUE) EXCEPT !.err = err]

(* Lines 387-394 and the finally block: the trailing remainder *)
Flush(buf, obs) ==
  IF Trim(buf) # <<>> /\ JSONValid(Trim(buf))
    THEN Resume("flushed", <<>>, buf, <<JSONParse(Trim(buf))>>, obs, FALSE)
    ELSE Resume("done", <<>>, buf, <<>>, obs, TRUE)

(* Lines 369-373: top of while (true) *)
LoopTop(buf) ==
  IF shouldAbortStream
    THEN Flush(buf, TRUE)
    ELSE Resume("reading", <<>>, buf, <<>>, FALSE, FALSE)

(* The for loop with a processStreamLines() that lets the SyntaxError of an *)
(* unparseable line escape                                                  *)
NextLineThrows(ls, buf) ==
  LET ps == SkipUnparsed(ls)
      skipped == SubSeq(ls, 1, Len(ls) - Len(ps))
  IN
  IF \E i \in 1..Len(skipped) : Trim(skipped[i]) # <<>> THEN Throw(buf, SyntaxError)
  ELSE IF ps = <<>> THEN LoopTop(buf)
  ELSE IF shouldAbortStream THEN Flush(buf, TRUE)
  ELSE Resume("yielded", Tail(ps), buf, <<JSONParse(Trim(Head(ps)))>>, FALSE, FALSE)

(* A for loop that hands over one event and goes on to the next read       *)
(* without waiting for the consumer to ask for the rest                     *)
NextLineReadsAhead(ls, buf) ==
  LET ps == SkipUnparsed(ls) IN
  IF ps = <<>> THEN LoopTop(buf)
  ELSE IF shouldAbortStream THEN Flush(buf, TRUE)
  ELSE Resume("reading", Tail(ps), buf, <<JSONParse(Trim(Head(ps)))>>, FALSE, FALSE)

(* Lines 380-385: the for loop over processStreamLines(lines) *)
NextLine(ls, buf) ==
  LET ps == SkipUnparsed(ls) IN
  IF ps = <<>> THEN LoopTop(buf)
  ELSE IF shouldAbortStream THEN Flush(buf, TRUE)
  ELSE Resume("yielded", Tail(ps), buf, <<JSONParse(Trim(Head(ps)))>>, FALSE, FALSE)

ApplyResume(c, r) ==
  /\ pc' = Upd(pc, c, r.pc)
  /\ lines' = Upd(lines, c, r.lines)
  /\ buffer' = Upd(buffer, c, r.buffer)
  /\ yielded' = Upd(yielded, c, yielded[c] \o r.out)
  /\ observedAt' = IF r.observed /\ observedAt[c] = -1
                     THEN Upd(observedAt, c, Len(yielded[c]))
                     ELSE observedAt
  /\ IF r.final
       THEN /\ readerLocked' = Upd(readerLocked, c, FALSE)
            /\ SetTokens(cleanupController(Now))
       ELSE /\ readerLocked' = Upd(readerLocked, c, TRUE)
            /\ UNCHANGED <<currentController, timeoutId, timers>>
  /\ streamError' = IF r.err # NoError THEN Upd(streamError, c, r.err) ELSE streamError
  /\ UNCHANGED <<cfgVars, chatVars, respVars, msgVars, aborted, nextToken, kind, attempt, signal, lastError, thrown,
                 attempts, waits, delays, body0, abortInvoked, abortedAt, outcomes,
                 abortLog, cancelledAt, lastCtl, delays>>

(* The consumer calls next(): the generator starts (getReader, loop top),   *)
(* or resumes after a yield                                                 *)
Pull(c) ==
  /\ pc[c] \in {"open", "yielded", "flushed"}
  /\ ApplyResume(c,
       CASE pc[c] = "open" -> LoopTop(<<>>)
         [] pc[c] = "yielded" -> NextLine(lines[c], buffer[c])
         [] pc[c] = "flushed" -> Resume("done", <<>>, buffer[c], <<>>, FALSE, TRUE))
  /\ UNCHANGED <<rest, pending, sawEnd, chunks>>

(* The read step with a decoder that keeps no state between chunks *)
ReadChunkStateless(c, n) ==
  /\ pc[c] = "reading"
  /\ ~aborted[signal[c]]
  /\ n \in 1..Len(rest[c])
  /\ LET d == StreamDecode(<<>>, SubSeq(rest[c], 1, n))
         pieces == Split(buffer[c] \o d.text)
     IN /\ ApplyResume(c, NextLine(SubSeq(pieces, 1, Len(pieces) - 1), pieces[Len(pieces)]))
        /\ pending' = Upd(pending, c, d.pend)
  /\ rest' = Upd(rest, c, SubSeq(rest[c], n + 1, Len(rest[c])))
  /\ chunks' = Upd(chunks, c, Append(chunks[c], n))
  /\ UNCHANGED sawEnd

(* reader.read() resolved with the next n bytes of the body: decode,        *)
(* split, keep the last piece, run the for loop                             *)
ReadChunk(c, n) ==
  /\ pc[c] = "reading"
  /\ ~aborted[signal[c]]
  /\ n \in 1..Len(rest[c])
  /\ LET d == StreamDecode(pending[c], SubSeq(rest[c], 1, n))
         pieces == Split(buffer[c] \o d.text)
     IN /\ ApplyResume(c, NextLine(SubSeq(pieces, 1, Len(pieces) - 1), pieces[Len(pieces)]))
        /\ pending' = Upd(pending, c, d.pend)
  /\ rest' = Upd(rest, c, SubSeq(rest[c], n + 1, Len(rest[c])))
  /\ chunks' = Upd(chunks, c, Append(chunks[c], n))
  /\ UNCHANGED sawEnd

(* reader.read() resolved with done: leave the loop *)
ReadDone(c) ==
  /\ pc[c] = "reading"
  /\ ~aborted[signal[c]]
  /\ rest[c] = <<>>
  /\ ApplyResume(c, Flush(buffer[c], FALSE))
  /\ sawEnd' = Upd(sawEnd, c, TRUE)
  /\ UNCHANGED <<rest, pending, chunks>>

(* A read error that re-enters the connection loop *)
ReadRejectRetries(c) ==
  /\ pc[c] = "reading"
  /\ attempts[c] <= MaxRetries
  /\ NewAttempt(c, "stream", attempt[c])
  /\ UNCHANGED <<cfgVars, chatVars, respVars, msgVars, kind, lastError, thrown, streamVars, waits, delays, body0, sawEnd,
                 abortInvoked, abortedAt, observedAt, logVars, obsVars>>

(* reader.read() rejected (the body errors once the signal is aborted, or   *)
(* the connection broke): the finally block runs and the error reaches the  *)
(* consumer                                                                 *)
ReadReject(c) ==
  /\ pc[c] = "reading"
  /\ ApplyResume(c, Throw(buffer[c], IF aborted[signal[c]] THEN AbortError ELSE NetworkError))
  /\ UNCHANGED <<rest, pending, sawEnd, chunks>>

(* The consumer calls return() (a break out of for await): a generator      *)
(* suspended at a yield runs its finally block; one that never started      *)
(* completes without running any of its body                                *)
Return(c) ==
  /\ pc[c] \in {"open", "yielded", "flushed"}
  /\ IF pc[c] = "open"
       THEN /\ pc' = Upd(pc, c, "done")
            /\ UNCHANGED <<tokenVars, kind, attempt, signal, lastError, thrown,
                           lines, buffer, yielded, readerLocked, histVars, cfgVars, chatVars, respVars, msgVars,
                           outcomes, obsVars>>
       ELSE ApplyResume(c, Resume("done", <<>>, buffer[c], <<>>, FALSE, TRUE))
  /\ UNCHANGED <<rest, pending, sawEnd, chunks>>

(* The consumer stops pulling and drops the iterator without return() *)
Abandon(c) ==
  /\ pc[c] \in {"open", "yielded", "flushed"}
  /\ pc' = Upd(pc, c, "abandoned")
  /\ UNCHANGED <<cfgVars, chatVars, respVars, msgVars, tokenVars, kind, attempt, signal, lastError, thrown,
                 streamVars, histVars, logVars, obsVars>>

----------------------------------------------------------------------------
(* OllamaClient.chat() and generate(): postStream(), then a for await loop  *)
(* over the stream that keeps the last chunk and breaks on chunk.done       *)

NoChunk == [kind |-> "null", val |-> <<>>]
NoChat == [state |-> "none", taken |-> 0, finalResponse |-> NoChunk]
ChatCalled == [state |-> "called", taken |-> 0, finalResponse |-> NoChunk]

(* chunk.done is truthy *)
Done(chunk) == chunk.kind = "object" /\ chunk.val = <<"done:true">>

(* chat(request) / generate(request) is called: await postStream(...) *)
ChatStart(c, e) ==
  /\ chat[c].state = "called"
  /\ StartStream(c, e)

(* The for await loop asks the iterator for the next chunk *)
ChatPull(c) ==
  /\ chat[c].state = "called"
  /\ chat[c].taken = Len(yielded[c])
  /\ Pull(c)

(* A loop body that never breaks *)
ChatTakeNoBreak(c) ==
  /\ chat[c].state = "called"
  /\ pc[c] \in {"yielded", "flushed"}
  /\ chat[c].taken < Len(yielded[c])
  /\ LET chunk == yielded[c][chat[c].taken + 1] IN
     chat' = [chat EXCEPT ![c] = [state |-> "called",
                                  taken |-> chat[c].taken + 1,
                                  finalResponse |-> chunk]]
  /\ UNCHANGED <<cfgVars, respVars, msgVars, tokenVars, callVars, streamVars, histVars,
                 logVars, obsVars>>

(* The loop body: finalResponse = chunk; if (chunk.done) break *)
ChatTake(c) ==
  /\ chat[c].state = "called"
  /\ pc[c] \in {"yielded", "flushed"}
  /\ chat[c].taken < Len(yielded[c])
  /\ LET chunk == yielded[c][chat[c].taken + 1] IN
     chat' = [chat EXCEPT ![c] = [state |-> IF Done(chunk) THEN "breaking" ELSE "called",
                                  taken |-> chat[c].taken + 1,
                                  finalResponse |-> chunk]]
  /\ UNCHANGED <<cfgVars, respVars, msgVars, tokenVars, callVars, streamVars, histVars,
                 logVars, obsVars>>

(* The break leaves the for await loop, which calls the iterator's return() *)
ChatBreak(c) ==
  /\ chat[c].state = "breaking"
  /\ Return(c)

(* The loop is over: errorHandler() when no chunk was received, else        *)
(* return finalResponse                                                     *)
ChatReturn(c) ==
  /\ chat[c].state \in {"called", "breaking"}
  /\ pc[c] = "done"
  /\ chat' = [chat EXCEPT ![c].state =
                IF chat[c].finalResponse = NoChunk THEN "threw" ELSE "returned"]
  /\ UNCHANGED <<cfgVars, respVars, msgVars, tokenVars, callVars, streamVars, histVars,
                 logVars, obsVars>>

(* postStream() or the iterator threw: the error leaves chat() *)
ChatThrow(c) ==
  /\ chat[c].state = "called"
  /\ pc[c] \in {"thrown", "failed"}
  /\ chat' = [chat EXCEPT ![c].state = "threw"]
  /\ UNCHANGED <<cfgVars, respVars, msgVars, tokenVars, callVars, streamVars, histVars,
                 logVars, obsVars>>

----------------------------------------------------------------------------
(* Specifications *)

InitFields(callers) ==
  /\ currentController = 0
  /\ aborted = [t \in TokenIds |-> FALSE]
  /\ timeoutId = [t \in TokenIds |-> FALSE]
  /\ timers = [t \in TokenIds |-> 0]
  /\ nextToken = 0
  /\ pc = [c \in Calls |-> IF c \in callers THEN "idle" ELSE "off"]
  /\ kind = [c \in Calls |-> "none"]
  /\ attempt = [c \in Calls |-> 0]
  /\ signal = [c \in Calls |-> 0]
  /\ lastError = [c \in Calls |-> NoError]
  /\ thrown = [c \in Calls |-> NoError]
  /\ rest = [c \in Calls |-> <<>>]
  /\ pending = [c \in Calls |-> <<>>]
  /\ buffer = [c \in Calls |-> <<>>]
  /\ lines = [c \in Calls |-> <<>>]
  /\ yielded = [c \in Calls |-> <<>>]
  /\ readerLocked = [c \in Calls |-> FALSE]
  /\ attempts = [c \in Calls |-> 0]
  /\ waits = [c \in Calls |-> 0]
  /\ delays = [c \in Calls |-> <<>>]
  /\ body0 = [c \in Calls |-> <<>>]
  /\ sawEnd = [c \in Calls |-> FALSE]
  /\ abortInvoked = [c \in Calls |-> FALSE]
  /\ abortedAt = [c \in Calls |-> -1]
  /\ observedAt = [c \in Calls |-> -1]
  /\ outcomes = [c \in Calls |-> <<>>]
  /\ chunks = [c \in Calls |-> <<>>]
  /\ streamError = [c \in Calls |-> NoError]
  /\ abortLog = [rets |-> <<>>, busy |-> FALSE, active |-> FALSE, fired |-> FALSE,
                 same |-> TRUE]
  /\ cancelledAt = [c \in Calls |-> -1]
  /\ lastCtl = NoCtl
  /\ response = [c \in Calls |-> NoResponse]
  /\ result = [c \in Calls |-> NoResult]
  /\ endpoint = [c \in Calls |-> ""]
  /\ cause = [c \in Calls |-> <<>>]
  /\ message = [c \in Calls |-> <<>>]

(* A client built from a valid configuration whose retries is in budgets *)
InitClient(callers, budgets) ==
  /\ retries \in budgets
  /\ service = BuiltWith(retries)
  /\ chat = [c \in Calls |-> NoChat]
  /\ InitFields(callers)

InitWith(callers) == InitClient(callers, 0..MaxRetries)

(* A client on which one logical call is made *)
Init == InitWith({1})

Next ==
  \/ \E c \in Calls, e \in Endpoints : StartRequest(c, e)
  \/ \E c \in Calls, e \in Endpoints : StartStream(c, e)
  \/ \E c \in Calls : BackoffDone(c)
  \/ \E c \in Calls, st \in FailStatuses : RequestHttpError(c, st)
  \/ \E c \in Calls, resp \in Responses : RequestOk(c, resp)
  \/ \E c \in Calls : FetchReject(c)
  \/ \E c \in Calls : ParseResolve(c)
  \/ \E c \in Calls, e \in {AbortError, SyntaxError, NetworkError} : ParseReject(c, e)
  \/ Abort
  \/ AbortTwice
  \/ \E t \in TokenIds : TimerFire(t)
  \/ \E c \in Calls, st \in FailStatuses : StreamHttpError(c, st)
  \/ \E c \in Calls : StreamNoBody(c)
  \/ \E c \in Calls, b \in MainBodies : StreamOk(c, b)
  \/ \E c \in Calls : Pull(c)
  \/ \E c \in Calls : \E n \in 1..Len(rest[c]) : ReadChunk(c, n)
  \/ \E c \in Calls : ReadDone(c)
  \/ \E c \in Calls : ReadReject(c)
  \/ \E c \in Calls : Return(c)
  \/ \E c \in Calls : Abandon(c)

Spec == Init /\ [][Next]_vars

(* A client whose first postStream() attempt has just returned the stream   *)
(* of a 2xx response carrying any body of at most MaxBody bytes: the state  *)
(* StartStream(1) and StreamOk(1, body) lead to, with the default retries.  *)
AllBodies == UNION {[1..n -> Bytes] : n \in 0..MaxBody}

InitStream ==
  /\ retries = 1
  /\ chat = [c \in Calls |-> NoChat]
  /\ service = BuiltWith(retries)
  /\ currentController = 1
  /\ aborted = [t \in TokenIds |-> FALSE]
  /\ timeoutId = [t \in TokenIds |-> t = 1]
  /\ timers = [t \in TokenIds |-> IF t = 1 THEN 1 ELSE 0]
  /\ nextToken = 1
  /\ pc = [c \in Calls |-> IF c = 1 THEN "open" ELSE "off"]
  /\ kind = [c \in Calls |-> IF c = 1 THEN "stream" ELSE "none"]
  /\ attempt = [c \in Calls |-> 0]
  /\ signal = [c \in Calls |-> IF c = 1 THEN 1 ELSE 0]
  /\ lastError = [c \in Calls |-> NoError]
  /\ thrown = [c \in Calls |-> NoError]
  /\ \E b \in AllBodies :
       /\ rest = [c \in Calls |-> IF c = 1 THEN b ELSE <<>>]
       /\ body0 = [c \in Calls |-> IF c = 1 THEN b ELSE <<>>]
  /\ pending = [c \in Calls |-> <<>>]
  /\ buffer = [c \in Calls |-> <<>>]
  /\ lines = [c \in Calls |-> <<>>]
  /\ yielded = [c \in Calls |-> <<>>]
  /\ readerLocked = [c \in Calls |-> FALSE]
  /\ attempts = [c \in Calls |-> IF c = 1 THEN 1 ELSE 0]
  /\ waits = [c \in Calls |-> 0]
  /\ delays = [c \in Calls |-> <<>>]
  /\ sawEnd = [c \in Calls |-> FALSE]
  /\ abortInvoked = [c \in Calls |-> FALSE]
  /\ abortedAt = [c \in Calls |-> -1]
  /\ observedAt = [c \in Calls |-> -1]
  /\ outcomes = [c \in Calls |-> <<>>]
  /\ chunks = [c \in Calls |-> <<>>]
  /\ streamError = [c \in Calls |-> NoError]
  /\ abortLog = [rets |-> <<>>, busy |-> FALSE, active |-> FALSE, fired |-> FALSE,
                 same |-> TRUE]
  /\ cancelledAt = [c \in Calls |-> -1]
  /\ lastCtl = NoCtl
  /\ response = [c \in Calls |-> NoResponse]
  /\ result = [c \in Calls |-> NoResult]
  /\ endpoint = [c \in Calls |-> IF c = 1 THEN "/api/generate" ELSE ""]
  /\ cause = [c \in Calls |-> <<>>]
  /\ message = [c \in Calls |-> <<>>]

NextStream ==
  \/ \E c \in Calls : Pull(c)
  \/ \E c \in Calls : \E n \in 1..Len(rest[c]) : ReadChunk(c, n)
  \/ \E c \in Calls : ReadDone(c)
  \/ \E c \in Calls : ReadReject(c)
  \/ \E t \in TokenIds : TimerFire(t)

SpecStream == InitStream /\ [][NextStream]_vars

----------------------------------------------------------------------------
(* Properties *)

(* C1: a logical call never issues more than retries + 1 fetch attempts.    *)
C1_AttemptsBounded ==
  \A c \in Calls : attempts[c] <= retries + 1

C1_Witness ==
  \E c \in Calls : retries >= 1 /\ attempts[c] = retries + 1 /\ pc[c] = "thrown"

C3_AbortAlwaysWins ==
  [][\A c \in Calls : abortInvoked[c] => attempts'[c] = attempts[c]]_vars

(* C4: after abort() returned true while the stream was open, the iterator  *)
(* yields no further event.                                                 *)
C4_NoEventAfterAbort ==
  \A c \in Calls : abortedAt[c] # -1 => Len(yielded[c]) = abortedAt[c]

(* C5: when the streaming loop sees the current token cancelled, the        *)
(* sequence ends at once with no further event (the buffer remainder        *)
(* included) and the reader lock and the timer are released.                *)
C5_CancelledLoopEndsAtOnce ==
  \A c \in Calls :
    observedAt[c] # -1 =>
      /\ Len(yielded[c]) = observedAt[c]
      /\ pc[c] = "done"
      /\ ~readerLocked[c]
      /\ ~timeoutId[signal[c]]

(* C6: however consumption of a stream stops, the reader lock is released,  *)
(* the attempt's timer is cleared and the client's token slot is empty.     *)
C6_StreamResourcesReleased ==
  \A c \in Calls :
    pc[c] \in StreamEnded =>
      /\ ~readerLocked[c]
      /\ ~timeoutId[signal[c]]
      /\ ~isActive

(* C7: when every attempt of a request() got a non-2xx response, the call   *)
(* made exactly retries + 1 attempts with retries waits and threw an error  *)
(* with the status of the last response.                                    *)
AllHttpFailures(c) ==
  /\ Len(outcomes[c]) = attempts[c]
  /\ \A i \in 1..Len(outcomes[c]) : outcomes[c][i].name = "OllamaError"

C7_ExhaustedBudget ==
  \A c \in Calls :
    (kind[c] = "request" /\ pc[c] \in {"returned", "thrown"} /\ AllHttpFailures(c)) =>
      /\ pc[c] = "thrown"
      /\ attempts[c] = retries + 1
      /\ waits[c] = retries
      /\ thrown[c] = outcomes[c][Len(outcomes[c])]
      /\ thrown[c].status \in FailStatuses

C7_Witness ==
  \E c \in Calls :
    /\ kind[c] = "request" /\ pc[c] = "thrown" /\ AllHttpFailures(c)
    /\ retries = 2 /\ attempts[c] = 3
    /\ outcomes[c][1].status = 500 /\ thrown[c].status = 404

(* C8: once postStream() has returned the stream, the call makes no further *)
(* fetch attempt and never goes back to connecting or backoff.              *)
C8_NoRetryMidStream ==
  [][\A c \in Calls :
       pc[c] \in StreamOpen \cup StreamEnded =>
         /\ attempts'[c] = attempts[c]
         /\ pc'[c] \in StreamOpen \cup StreamEnded]_vars

C8_Witness ==
  \E c \in Calls : pc[c] = "failed" /\ attempt[c] < retries /\ Len(yielded[c]) > 0

(* The text of a whole body: UTF-8 decoding in one piece, where a sequence  *)
(* cut short by the end of the body decodes to U+FFFD.                      *)
WholeText(body) ==
  LET d == DecodeBytes(<<>>, body, <<>>) IN
  IF d.pend = <<>> THEN d.text ELSE Append(d.text, "FFFD")

RECURSIVE ParsedLines(_)
(* The parsed values of the non-blank, parseable lines, in order *)
ParsedLines(ls) ==
  IF ls = <<>> THEN <<>>
  ELSE LET t == Trim(Head(ls)) IN
       (IF t # <<>> /\ JSONValid(t) THEN <<JSONParse(t)>> ELSE <<>>) \o ParsedLines(Tail(ls))

(* The events of a text: its newline-terminated lines, then its remainder *)
EventsOfText(text) == ParsedLines(Split(text))

ReadToEnd(c) ==
  /\ pc[c] = "done"
  /\ sawEnd[c]
  /\ ~aborted[signal[c]]

(* C9: an uncancelled stream read to the end of its body has yielded        *)
(* exactly the parsed non-blank parseable lines of the body, in order, then *)
(* the parsed remainder.                                                    *)
C9_EventsAreLinesOfBody ==
  \A c \in Calls : ReadToEnd(c) => yielded[c] = EventsOfText(WholeText(body0[c]))

(* C10: chunk-boundary independence: however the body was cut into chunks,  *)
(* an uncancelled stream read to the end has yielded the events it yields   *)
(* when the whole body arrives as one chunk.                                *)
C10_ChunkBoundaryIndependence ==
  \A c \in Calls :
    ReadToEnd(c) => yielded[c] = EventsOfText(StreamDecode(<<>>, body0[c]).text)

C10_Witness ==
  \E c \in Calls :
    /\ ReadToEnd(c)
    /\ body0[c] = <<"QT", "C3", "A9", "QT">>
    /\ chunks[c] = <<2, 2>>
    /\ yielded[c] = <<[kind |-> "string", val |-> <<"E9">>]>>

(* A client used without waiting: two logical calls are made on it, in any  *)
(* order and at any time, with retries = 0.  Either call may be a           *)
(* request(); the first may instead be a postStream() whose response        *)
(* carries OverlapBody.                                                     *)
OverlapBody == <<"1", "LF", "1">>

InitOverlap == InitWith(Calls) /\ retries = 0

NextOverlap ==
  \/ \E c \in Calls, e \in Endpoints : StartRequest(c, e)
  \/ \E c \in Calls, e \in Endpoints : c = 1 /\ StartStream(c, e)
  \/ \E c \in Calls, st \in FailStatuses : RequestHttpError(c, st)
  \/ \E c \in Calls, resp \in Responses : RequestOk(c, resp)
  \/ \E c \in Calls : FetchReject(c)
  \/ \E c \in Calls : ParseResolve(c)
  \/ \E c \in Calls, e \in {AbortError, SyntaxError, NetworkError} : ParseReject(c, e)
  \/ Abort
  \/ \E t \in TokenIds : TimerFire(t)
  \/ \E c \in Calls, st \in FailStatuses : StreamHttpError(c, st)
  \/ \E c \in Calls : StreamOk(c, OverlapBody)
  \/ \E c \in Calls : Pull(c)
  \/ \E c \in Calls : \E n \in 1..Len(rest[c]) : ReadChunk(c, n)
  \/ \E c \in Calls : ReadDone(c)
  \/ \E c \in Calls : ReadReject(c)
  \/ \E c \in Calls : Return(c)
  \/ \E c \in Calls : Abandon(c)

SpecOverlap == InitOverlap /\ [][NextOverlap]_vars

(* An AbortController used on its own: up to MaxCtl tokens are created     *)
(* and setTimeout(), abort() and clearTimeout() are called on them in any   *)
(* order, while armed timers fire at any time.                              *)
CtlState == [tid |-> timeoutId, tm |-> timers, ab |-> aborted]

CtlCall(op, t, r) ==
  /\ timeoutId' = r.tid
  /\ timers' = r.tm
  /\ aborted' = r.ab
  /\ lastCtl' = [op |-> op, t |-> t, pre |-> Tok(t)]
  /\ UNCHANGED <<cfgVars, chatVars, respVars, msgVars, currentController, nextToken, callVars, streamVars, histVars,
                 logVars, streamError, abortLog, cancelledAt>>

(* new AbortController() *)
CtlNew ==
  /\ nextToken < MaxCtl
  /\ nextToken' = nextToken + 1
  /\ UNCHANGED <<cfgVars, chatVars, respVars, msgVars, currentController, aborted, timeoutId, timers, callVars,
                 streamVars, histVars, logVars, obsVars>>

CtlSetTimeout(t) ==
  /\ t <= nextToken
  /\ CtlCall("setTimeout", t, setTimeout(CtlState, t))

CtlAbort(t) ==
  /\ t <= nextToken
  /\ CtlCall("abort", t, ctlAbort(CtlState, t))

CtlClearTimeout(t) ==
  /\ t <= nextToken
  /\ CtlCall("clearTimeout", t, clearTimeout(CtlState, t))

InitCtl == InitClient({}, {1})

NextCtl ==
  \/ CtlNew
  \/ \E t \in TokenIds : CtlSetTimeout(t)
  \/ \E t \in TokenIds : CtlAbort(t)
  \/ \E t \in TokenIds : CtlClearTimeout(t)
  \/ \E t \in TokenIds : TimerFire(t)

SpecCtl == InitCtl /\ [][NextCtl]_vars

(* The OllamaService constructor called with any configuration of the      *)
(* sets below, followed by calls against a server that keeps failing.       *)
Configs ==
  [host    : {Undefined, Num(42)} \cup {Str(x) : x \in HostTexts},
   timeout : {Undefined, Str("30s"), Num(999), Num(1000), Num(30000), Num(86400000),
              Num(86400001), NaN},
   retries : {Undefined, Str("3")} \cup {Num(n) : n \in -1..MaxRetries},
   headers : {Undefined, Null, Str("x"), Obj}]

(* new OllamaService(config): isValidConfig(config), then new OllamaClient  *)
(* (config), whose FetchClient takes retries = config.retries ?? 1          *)
Construct ==
  /\ service.state = "new"
  /\ LET e == isValidConfig(service.config) IN
     IF e # NoError
       THEN /\ service' = [service EXCEPT !.state = "rejected", !.error = e]
            /\ UNCHANGED <<retries, pc>>
       ELSE /\ service' = [service EXCEPT !.state = "built"]
            /\ retries' = IF service.config.retries = Undefined
                             THEN 1 ELSE service.config.retries.num
            /\ pc' = [pc EXCEPT ![1] = "idle"]
  /\ UNCHANGED <<chatVars, respVars, msgVars, tokenVars, kind, attempt, signal, lastError, thrown,
                 streamVars, histVars, logVars, obsVars>>

InitConfig ==
  /\ service \in [state : {"new"}, config : Configs, error : {NoError}]
  /\ retries = 0
  /\ chat = [c \in Calls |-> NoChat]
  /\ InitFields({})

NextConfig ==
  \/ Construct
  \/ \E c \in Calls, e \in Endpoints : StartRequest(c, e)
  \/ \E c \in Calls, e \in Endpoints : StartStream(c, e)
  \/ \E c \in Calls : BackoffDone(c)
  \/ \E c \in Calls, st \in FailStatuses : RequestHttpError(c, st)
  \/ \E c \in Calls, st \in FailStatuses : StreamHttpError(c, st)
  \/ \E c \in Calls : FetchReject(c)

SpecConfig == InitConfig /\ [][NextConfig]_vars

(* A client on which one request() is made, whose fetches, body reads and  *)
(* backoff timers all eventually settle: the host resolves or rejects every *)
(* pending promise and fires every timer that stays armed.                  *)
FetchSettles(c) ==
  \/ \E st \in FailStatuses : RequestHttpError(c, st)
  \/ \E resp \in Responses : RequestOk(c, resp)
  \/ FetchReject(c)

ParseSettles(c) ==
  \/ ParseResolve(c)
  \/ \E e \in {AbortError, SyntaxError, NetworkError} : ParseReject(c, e)

NextRequest ==
  \/ \E c \in Calls, e \in Endpoints : StartRequest(c, e)
  \/ \E c \in Calls : BackoffDone(c)
  \/ \E c \in Calls, st \in FailStatuses : RequestHttpError(c, st)
  \/ \E c \in Calls, resp \in Responses : RequestOk(c, resp)
  \/ \E c \in Calls : FetchReject(c)
  \/ \E c \in Calls : ParseResolve(c)
  \/ \E c \in Calls, e \in {AbortError, SyntaxError, NetworkError} : ParseReject(c, e)
  \/ Abort
  \/ \E t \in TokenIds : TimerFire(t)

FairRequest ==
  /\ \A c \in Calls : WF_vars(FetchSettles(c))
  /\ \A c \in Calls : WF_vars(ParseSettles(c))
  /\ \A c \in Calls : WF_vars(BackoffDone(c))
  /\ \A t \in TokenIds : WF_vars(TimerFire(t))

SpecRequest == Init /\ [][NextRequest]_vars /\ FairRequest

(* A client on which one postStream() is made, with a budget of at most    *)
(* one retry, on a host that fires every timer that stays armed.            *)
InitDeadline == InitClient({1}, {0, 1})

NextDeadline ==
  \/ \E c \in Calls, e \in Endpoints : StartStream(c, e)
  \/ \E c \in Calls : BackoffDone(c)
  \/ \E c \in Calls : FetchReject(c)
  \/ \E c \in Calls, st \in FailStatuses : StreamHttpError(c, st)
  \/ \E c \in Calls, b \in MainBodies : StreamOk(c, b)
  \/ \E c \in Calls : Pull(c)
  \/ \E c \in Calls : \E n \in 1..Len(rest[c]) : ReadChunk(c, n)
  \/ \E c \in Calls : ReadDone(c)
  \/ \E c \in Calls : ReadReject(c)
  \/ \E c \in Calls : Return(c)
  \/ \E c \in Calls : Abandon(c)
  \/ Abort
  \/ \E t \in TokenIds : TimerFire(t)

SpecDeadline ==
  InitDeadline /\ [][NextDeadline]_vars /\ \A t \in TokenIds : WF_vars(TimerFire(t))

(* A client on which one chat() or generate() is made.  The bodies are      *)
(* lines of {"done":false} and {"done":true} objects.                       *)
ChatBodies ==
  { <<>>,
    <<"DT">>,
    <<"DF", "LF", "DT", "LF">>,
    <<"DF", "LF", "DF">>,
    <<"DT", "LF", "DF", "LF">>,
    <<"DF", "LF", "DT", "LF", "DT", "LF">> }

ChatEndpoints == {"/api/chat", "/api/generate"}

InitChat ==
  /\ retries \in {0, 1}
  /\ service = BuiltWith(retries)
  /\ chat = [c \in Calls |-> IF c = 1 THEN ChatCalled ELSE NoChat]
  /\ InitFields({1})

NextChat ==
  \/ \E c \in Calls, e \in ChatEndpoints : ChatStart(c, e)
  \/ \E c \in Calls : BackoffDone(c)
  \/ \E c \in Calls : FetchReject(c)
  \/ \E c \in Calls, st \in FailStatuses : StreamHttpError(c, st)
  \/ \E c \in Calls : StreamNoBody(c)
  \/ \E c \in Calls, b \in ChatBodies : StreamOk(c, b)
  \/ \E c \in Calls : ChatPull(c)
  \/ \E c \in Calls : ChatTake(c)
  \/ \E c \in Calls : ChatBreak(c)
  \/ \E c \in Calls : ChatReturn(c)
  \/ \E c \in Calls : ChatThrow(c)
  \/ \E c \in Calls : \E n \in 1..Len(rest[c]) : ReadChunk(c, n)
  \/ \E c \in Calls : ReadDone(c)
  \/ \E c \in Calls : ReadReject(c)
  \/ Abort
  \/ \E t \in TokenIds : TimerFire(t)

SpecChat == InitChat /\ [][NextChat]_vars

(* A client with a retry budget of up to MaxWaits whose server keeps        *)
(* failing: one logical call, every attempt of which ends in a non-2xx      *)
(* response, a 2xx response without body, or a network error.               *)
InitBackoff == InitClient({1}, 0..MaxWaits)

NextBackoff ==
  \/ \E c \in Calls, e \in Endpoints : StartRequest(c, e)
  \/ \E c \in Calls, e \in Endpoints : StartStream(c, e)
  \/ \E c \in Calls : BackoffDone(c)
  \/ \E c \in Calls, st \in FailStatuses : RequestHttpError(c, st)
  \/ \E c \in Calls, st \in FailStatuses : StreamHttpError(c, st)
  \/ \E c \in Calls : StreamNoBody(c)
  \/ \E c \in Calls : FetchReject(c)

SpecBackoff == InitBackoff /\ [][NextBackoff]_vars

----------------------------------------------------------------------------
IsPrefix(s, t) == Len(s) <= Len(t) /\ SubSeq(t, 1, Len(s)) = s

IsValidLine(l) == Trim(l) # <<>> /\ JSONValid(Trim(l))

(* The values of the pieces of a text that are neither blank nor invalid *)
ValidLines(text) ==
  LET good == SelectSeq(Split(text), IsValidLine)
  IN [i \in 1..Len(good) |-> JSONParse(Trim(good[i]))]

(* C11: a line that is not valid JSON never raises an error and never ends  *)
(* the stream: the iterator never throws a SyntaxError, what an uncancelled *)
(* stream has yielded is always a prefix of the values of the valid lines   *)
(* of the body (blank and invalid lines dropped), and once the body is read *)
(* to its end every valid line has been yielded.                            *)
C11_InvalidLinesAreDropped ==
  \A c \in Calls :
    LET valid == ValidLines(StreamDecode(<<>>, body0[c]).text) IN
    /\ streamError[c] # SyntaxError
    /\ pc[c] \in StreamOpen \cup StreamEnded /\ ~aborted[signal[c]]
         => IsPrefix(yielded[c], valid)
    /\ ReadToEnd(c) => Len(yielded[c]) = Len(valid)

C11_Witness ==
  \E c \in Calls :
    /\ ReadToEnd(c)
    /\ body0[c] = <<"QT", "LF", "LF", "1">>
    /\ yielded[c] = <<[kind |-> "number", val |-> <<1>>]>>
    /\ streamError[c] = NoError

----------------------------------------------------------------------------
(* The state of a streaming call, from its position *)
PhaseOf(p, ended) ==
  CASE p \in {"connecting", "backoff"} -> "Connecting"
    [] p \in StreamOpen \cup {"abandoned"} -> "Streaming"
    [] p = "done" -> IF ended THEN "Drained" ELSE "Aborted"
    [] p \in {"failed", "thrown"} -> "Failed"
    [] OTHER -> "None"

StreamStep(c) ==
  LET a == PhaseOf(pc[c], sawEnd[c])
      b == PhaseOf(pc'[c], sawEnd'[c])
  IN
  /\ a = "Connecting" =>
       \/ /\ b = "Connecting"
          /\ yielded'[c] = yielded[c]
          /\ attempts'[c] # attempts[c] => pc[c] = "backoff" /\ pc'[c] = "connecting"
          /\ pc[c] = "connecting" /\ pc'[c] = "backoff" =>
               lastError'[c] \notin {NoError, AbortError} /\ attempt[c] < retries
       \/ /\ b = "Streaming"
          /\ pc[c] = "connecting" /\ pc'[c] = "open"
          /\ ~aborted[signal[c]]
          /\ attempts'[c] = attempts[c]
       \/ /\ b = "Failed"
          /\ thrown'[c] # NoError
          /\ lastError'[c] = AbortError \/ attempt[c] >= retries
          /\ attempts'[c] = attempts[c]
  /\ a = "Streaming" =>
       \/ b = "Streaming" /\ attempts'[c] = attempts[c]
       \/ b = "Drained" /\ rest[c] = <<>> /\ attempts'[c] = attempts[c]
       \/ b = "Aborted" /\ attempts'[c] = attempts[c]
       \/ /\ b = "Failed"
          /\ pc[c] = "reading"
          /\ streamError'[c] \in {AbortError, NetworkError}
          /\ yielded'[c] = yielded[c]
          /\ attempts'[c] = attempts[c]
  /\ a \in {"Drained", "Aborted", "Failed"} =>
       /\ b = a
       /\ pc'[c] = pc[c]
       /\ yielded'[c] = yielded[c]
       /\ attempts'[c] = attempts[c]

----------------------------------------------------------------------------
(* C13: every attempt, the first and each retry, of request() and of        *)
(* postStream(), starts with a token created for it: one no attempt has     *)
(* used before, not cancelled, with its timer newly armed, installed as the *)
(* client's current token.                                                  *)
C13_FreshTokenPerAttempt ==
  [][\A c \in Calls :
       attempts'[c] = attempts[c] + 1 =>
         LET t == signal'[c] IN
         /\ t = nextToken + 1
         /\ nextToken' = t
         /\ \A d \in Calls : signal[d] < t
         /\ ~aborted'[t]
         /\ ~timeoutId[t] /\ timeoutId'[t]
         /\ currentController' = t
         /\ pc'[c] \in InFlight]_vars

C13_Witness ==
  \E c \in Calls :
    /\ attempts[c] = 3
    /\ waits[c] = 2
    /\ pc[c] \in InFlight
    /\ signal[c] = 3
    /\ currentController = 3
    /\ timeoutId = [t \in TokenIds |-> t = 3]
    /\ \A t \in TokenIds : ~aborted[t]

----------------------------------------------------------------------------
(* C14: the timeout is a deadline for the whole attempt of request(): as    *)
(* long as the attempt has not delivered its result, reading the response   *)
(* body included, its token's timer is pending or has cancelled it.         *)
C14_DeadlineCoversBodyRead ==
  \A c \in Calls :
    kind[c] = "request" /\ pc[c] \in {"fetching", "parsing"} =>
      timeoutId[signal[c]] \/ aborted[signal[c]]

OthersIdle(c) == \A d \in Calls \ {c} : pc[d] \notin InProgress

(* C15: when request() has settled, by returning or by throwing, and no     *)
(* other call runs on the client, no timer is outstanding and the client's  *)
(* current token is null.                                                   *)
C15_SettledRequestLeavesNoTimer ==
  \A c \in Calls :
    kind[c] = "request" /\ pc[c] \in {"returned", "thrown"} /\ OthersIdle(c) =>
      /\ currentController = 0
      /\ \A t \in TokenIds : ~timeoutId[t]

C15_Witness ==
  \E c \in Calls :
    /\ kind[c] = "request"
    /\ pc[c] = "returned"
    /\ attempts[c] = 2
    /\ OthersIdle(c)
    /\ currentController = 0
    /\ \A t \in TokenIds : ~timeoutId[t]

(* C16: abort() returns true exactly when a call is in progress on the      *)
(* client (attempt in flight, waiting between attempts, buffered body being *)
(* read, stream open), and then it has fired the current token; when it     *)
(* returns false it changed nothing.                                        *)
C16_AbortReportsProgress ==
  abortLog.rets # <<>> =>
    /\ abortLog.rets[1] = abortLog.busy
    /\ abortLog.rets[1] => abortLog.fired

C18_IsActiveTracksProgress == isActive <=> Busy

----------------------------------------------------------------------------
(* C19: on one client at most one attempt is in flight at any time:         *)
(* attempts of different logical calls never overlap.                       *)
C19_OneAttemptInFlight ==
  Cardinality({c \in Calls : pc[c] \in InFlight}) <= 1

(* C20: when the token of a stream is triggered between two pulls, the      *)
(* iteration ends normally: no error is thrown to the consumer and no       *)
(* further event is yielded.                                                *)
C20_CancelledStreamEndsQuietly ==
  \A c \in Calls :
    cancelledAt[c] # -1 =>
      /\ streamError[c] = NoError
      /\ Len(yielded[c]) = cancelledAt[c]

----------------------------------------------------------------------------
(* C21: the error request() or postStream() throws is one OllamaError that  *)
(* carries the last failure the call observed: the HTTP status of the last  *)
(* failed attempt when that failure had one, and the generic status 500     *)
(* when it had none (network error, cancellation, unreadable body).         *)
C21_ThrownErrorIsLastFailure ==
  \A c \in Calls :
    pc[c] = "thrown" =>
      /\ outcomes[c] # <<>>
      /\ LET last == outcomes[c][Len(outcomes[c])] IN
         /\ thrown[c].name = "OllamaError"
         /\ thrown[c].status = IF last.name = "OllamaError" THEN last.status ELSE 500

C21_Witness ==
  \E c \in Calls :
    /\ pc[c] = "thrown"
    /\ outcomes[c] = <<NetworkError, HttpError(404)>>
    /\ thrown[c] = HttpError(404)

----------------------------------------------------------------------------
(* How a logical call has settled, from its position *)
SettledAs(p, k) ==
  CASE p = "returned" -> "value"
    [] p = "thrown" -> "error"
    [] k = "stream" /\ p \in StreamOpen \cup StreamEnded -> "stream"
    [] OTHER -> "pending"

SettleStep(c) ==
  LET a == SettledAs(pc[c], kind[c])
      b == SettledAs(pc'[c], kind'[c])
  IN
  /\ a # "pending" =>
       /\ b = a
       /\ thrown'[c] = thrown[c]
       /\ attempts'[c] = attempts[c]
       /\ outcomes'[c] = outcomes[c]
  /\ a = "pending" /\ b = "value" =>
       /\ kind[c] = "request"
       /\ pc[c] \in {"fetching", "parsing"}
       /\ ~aborted[signal[c]]
       /\ outcomes'[c] = outcomes[c]
       /\ thrown'[c] = NoError
  /\ a = "pending" /\ b = "stream" =>
       /\ pc[c] = "connecting"
       /\ ~aborted[signal[c]]
       /\ outcomes'[c] = outcomes[c]
       /\ thrown'[c] = NoError
  /\ a = "pending" /\ b = "error" =>
       /\ thrown[c] = NoError
       /\ thrown'[c].name = "OllamaError"
       /\ outcomes'[c] # <<>>
  /\ a = "pending" /\ b = "pending" => thrown'[c] = NoError

(* C22: each logical call settles exactly once: request() returns a value   *)
(* or throws one error, postStream() returns a stream or throws one error.  *)
(* Once settled a call never settles again or differently, a value or a     *)
(* stream is returned only by an attempt that succeeded, and an error is    *)
(* thrown only after an attempt failed.                                     *)
C22_SettlesExactlyOnce ==
  [][\A c \in Calls : SettleStep(c)]_vars

C22_Witness ==
  \E c \in Calls :
    /\ kind[c] = "request"
    /\ pc[c] = "returned"
    /\ outcomes[c] = <<HttpError(500)>>
    /\ thrown[c] = NoError
    /\ attempts[c] = 2

----------------------------------------------------------------------------
(* C23: the wait before retry number n (n = 0 for the first retry) is       *)
(* min(1000 * 2^n, 5000) milliseconds: 1000, 2000, 4000, 5000, 5000, ...;   *)
(* the delays of a call never decrease and never exceed 5000.               *)
C23_BackoffDelays ==
  \A c \in Calls :
    \A i \in 1..Len(delays[c]) :
      /\ delays[c][i] = CASE i = 1 -> 1000
                          [] i = 2 -> 2000
                          [] i = 3 -> 4000
                          [] OTHER -> 5000
      /\ delays[c][i] <= 5000
      /\ i > 1 => delays[c][i - 1] <= delays[c][i]

C23_Witness ==
  \E c \in Calls :
    /\ delays[c] = <<1000, 2000, 4000, 5000>>
    /\ waits[c] = 4
    /\ pc[c] = "backoff"

----------------------------------------------------------------------------
(* C24: after any sequence of setTimeout(), abort() and clearTimeout()      *)
(* calls on a token at most one timer is outstanding for it, and it is the  *)
(* one the token's timeoutId names: arming again cancels the previous       *)
(* timer first.                                                             *)
C24_AtMostOneTimer ==
  \A t \in TokenIds :
    /\ timers[t] <= 1
    /\ timers[t] = 1 <=> timeoutId[t]

C24_Witness ==
  /\ lastCtl.op = "setTimeout"
  /\ lastCtl.pre.timeoutId
  /\ lastCtl.pre.timers = 1
  /\ timers[lastCtl.t] = 1
  /\ timeoutId[lastCtl.t]

(* C25: token cancellation is idempotent and irreversible: after abort()    *)
(* the token's cancel flag is set and it has no outstanding timer, abort()  *)
(* called again leaves the token unchanged, and no step ever resets a set   *)
(* flag.                                                                    *)
C25_AbortIdempotentIrreversible ==
  [][\A t \in TokenIds :
       /\ aborted[t] => aborted'[t]
       /\ lastCtl'.op = "abort" /\ lastCtl'.t = t =>
            /\ aborted'[t]
            /\ ~timeoutId'[t]
            /\ timers'[t] = 0
       /\ (/\ lastCtl.op = "abort" /\ lastCtl.t = t
           /\ lastCtl'.op = "abort" /\ lastCtl'.t = t) =>
            /\ timeoutId'[t] = timeoutId[t]
            /\ timers'[t] = timers[t]
            /\ aborted'[t] = aborted[t]]_vars

C25_Witness ==
  /\ lastCtl.op = "abort"
  /\ lastCtl.pre = [timeoutId |-> FALSE, timers |-> 0, aborted |-> TRUE]
  /\ Tok(lastCtl.t) = lastCtl.pre

(* C26: clearTimeout() removes the token's outstanding timer and leaves the *)
(* cancel flag as it was: an unfired token stays unfired, and the cleared   *)
(* timer never fires afterwards.                                            *)
C26_ClearTimeoutDisarmsOnly ==
  lastCtl.op = "clearTimeout" =>
    /\ ~timeoutId[lastCtl.t]
    /\ timers[lastCtl.t] = 0
    /\ aborted[lastCtl.t] = lastCtl.pre.aborted

C26_Witness ==
  /\ lastCtl.op = "clearTimeout"
  /\ lastCtl.pre = [timeoutId |-> TRUE, timers |-> 1, aborted |-> FALSE]
  /\ Tok(lastCtl.t) = [timeoutId |-> FALSE, timers |-> 0, aborted |-> FALSE]

----------------------------------------------------------------------------
(* The malformed configurations: a host that is not an http(s) URL, a       *)
(* timeout that is not a number of 1000..86400000, retries that are not a   *)
(* number or are negative, headers that are not an object                   *)
Malformed(config) ==
  \/ config.host.type # "string"
  \/ ~URLParse(config.host.str).ok
  \/ URLParse(config.host.str).protocol \notin {"http:", "https:"}
  \/ /\ config.timeout # Undefined
     /\ config.timeout \notin {Num(n) : n \in {1000, 30000, 86400000}}
  \/ config.retries # Undefined /\ config.retries \notin {Num(n) : n \in 0..MaxRetries}
  \/ config.headers \notin {Undefined, Obj}

(* C27: a malformed configuration makes the OllamaService constructor throw *)
(* before any client is built and before any network attempt: the service   *)
(* is rejected with status 400, no call can be started on it, no token is   *)
(* created, and no attempt or retry wait ever happens.                      *)
C27_MalformedConfigRejected ==
  service.state # "new" /\ Malformed(service.config) =>
    /\ service.state = "rejected"
    /\ service.error = HttpError(400)
    /\ nextToken = 0
    /\ \A c \in Calls : pc[c] = "off" /\ attempts[c] = 0 /\ waits[c] = 0

----------------------------------------------------------------------------
----------------------------------------------------------------------------
(* C29: the message of the error request() or postStream() rejects with     *)
(* contains the endpoint the call was given.                                *)
C29_MessageNamesEndpoint ==
  \A c \in Calls :
    pc[c] = "thrown" =>
      \E i \in DOMAIN message[c] : message[c][i] = endpoint[c]

----------------------------------------------------------------------------
(* The step clears the timer of token t, or drops the client's reference   *)
(* to it                                                                    *)
Released(t) ==
  \/ timeoutId[t] /\ ~timeoutId'[t]
  \/ currentController = t /\ currentController' # t /\ currentController' = 0

(* The step is an event of call c's own attempt on token t: the call moves  *)
(* on (completion, failure), or the token is cancelled by abort() or by its *)
(* timer                                                                    *)
OwnEvent(c, t) ==
  \/ pc'[c] # pc[c]
  \/ ~aborted[t] /\ aborted'[t]

(* C30: while a call is in progress on its token, only an event of that     *)
(* call's own attempt clears the token's timer or makes the client drop its *)
(* reference to the token; no step of another call does.                    *)
C30_CleanupOnlyByOwnAttempt ==
  [][\A c \in Calls :
       pc[c] \in InProgress /\ signal[c] \in TokenIds /\ Released(signal[c])
         => OwnEvent(c, signal[c])]_vars

----------------------------------------------------------------------------
----------------------------------------------------------------------------
(* C37: while the only call on the client waits in backoff, the failed      *)
(* attempt's token has been cleaned up: currentController is null, no token *)
(* holds a timeoutId and no timer is outstanding.                           *)
C37_BackoffHoldsNoToken ==
  \A c \in Calls :
    pc[c] = "backoff" /\ OthersIdle(c) =>
      /\ currentController = 0
      /\ \A t \in TokenIds : ~timeoutId[t] /\ timers[t] = 0

C37_Witness ==
  \E c \in Calls :
    /\ pc[c] = "backoff"
    /\ kind[c] = "stream"
    /\ attempts[c] = 2
    /\ outcomes[c] = <<HttpError(500), NetworkError>>
    /\ currentController = 0
    /\ timers[signal[c]] = 0

----------------------------------------------------------------------------
(* C35: when the last attempt of a stream call failed on a 2xx response     *)
(* without a body, the failure is recorded with status 500, the token is    *)
(* cleaned up, and the call goes on as after a non-2xx response: into a     *)
(* backoff of min(1000 * 2^attempt, 5000) while the budget lasts, and       *)
(* otherwise it throws that error.                                          *)
C35_MissingBodyIsRetried ==
  \A c \in Calls :
    pc[c] \in {"backoff", "thrown"} /\ cause[c] = NoBodyMessage =>
      /\ kind[c] = "stream"
      /\ outcomes[c][Len(outcomes[c])] = HttpError(500)
      /\ currentController = 0
      /\ ~timeoutId[signal[c]] /\ timers[signal[c]] = 0
      /\ IF attempt[c] < retries
           THEN /\ pc[c] = "backoff"
                /\ delays[c][Len(delays[c])]
                     = (IF attempt[c] <= 2 THEN 1000 * 2^attempt[c] ELSE 5000)
           ELSE /\ pc[c] = "thrown"
                /\ thrown[c] = HttpError(500)
                /\ Len(delays[c]) = retries

C35_Witness ==
  \E c \in Calls :
    /\ pc[c] = "backoff"
    /\ cause[c] = NoBodyMessage
    /\ retries = 2
    /\ attempt[c] = 1
    /\ delays[c] = <<1000, 2000>>

----------------------------------------------------------------------------
(* C34: a request() never makes more than retries + 1 attempts or more than *)
(* retries backoff waits, and, when every fetch, body read and timer        *)
(* eventually settles, a request() that was called eventually returns or    *)
(* throws.                                                                  *)
C34_RequestEventuallySettles ==
  /\ [](\A c \in Calls : attempts[c] <= retries + 1 /\ waits[c] <= retries)
  /\ \A c \in Calls :
       (kind[c] = "request") ~> (pc[c] \in {"returned", "thrown"})

C34_Witness ==
  \E c \in Calls :
    /\ kind[c] = "request"
    /\ pc[c] = "returned"
    /\ retries = 2
    /\ attempts[c] = 3
    /\ waits[c] = 2
    /\ result[c].how = "json"

----------------------------------------------------------------------------
(* C33: the timer postStream() armed for the attempt is the stream's only   *)
(* deadline.  While the stream is open and its token is not cancelled that  *)
(* one timer is armed; no step of an open stream, chunk arrival included,   *)
(* arms a timer on the token; and a stream that stays open has its token    *)
(* cancelled once the host fires the timer.                                 *)
C33_StreamDeadlineFromAttemptStart ==
  /\ [](\A c \in Calls :
          pc[c] \in StreamOpen /\ ~aborted[signal[c]] =>
            timeoutId[signal[c]] /\ timers[signal[c]] = 1)
  /\ [][\A c \in Calls :
          pc[c] \in StreamOpen =>
            /\ timers'[signal[c]] <= timers[signal[c]]
            /\ timeoutId'[signal[c]] => timeoutId[signal[c]]]_vars
  /\ \A c \in Calls :
       (pc[c] \in StreamOpen) ~> (pc[c] \notin StreamOpen \/ aborted[signal[c]])

C33_Witness ==
  \E c \in Calls :
    /\ pc[c] = "yielded"
    /\ Len(chunks[c]) = 2
    /\ ~aborted[signal[c]]
    /\ timeoutId[signal[c]]
    /\ timers[signal[c]] = 1

----------------------------------------------------------------------------
(* The bytes of its body the stream of call c has read so far *)
Consumed(c) == SubSeq(body0[c], 1, Len(body0[c]) - Len(rest[c]))

(* The events of the newline-terminated lines of the bytes read so far *)
EventsRead(c) ==
  LET pieces == Split(DecodeBytes(<<>>, Consumed(c), <<>>).text)
  IN ParsedLines(SubSeq(pieces, 1, Len(pieces) - 1))

(* C32: streaming is pull-driven.  A read of the body is outstanding only   *)
(* while a pull of the consumer is pending, and at that time every event of *)
(* the lines read so far has been handed to the consumer; bytes leave the   *)
(* body only in a step of such a read, never while the iterator is          *)
(* suspended or finished.                                                   *)
C32_PullDriven ==
  /\ [](\A c \in Calls :
          pc[c] = "reading" => yielded[c] = EventsRead(c) /\ lines[c] = <<>>)
  /\ [][\A c \in Calls :
          (rest'[c] # rest[c] /\ pc[c] # "connecting") \/ chunks'[c] # chunks[c]
            => pc[c] = "reading"]_vars

C32_Witness ==
  \E c \in Calls :
    /\ pc[c] = "reading"
    /\ body0[c] = <<"1", "LF", "1", "LF">>
    /\ chunks[c] = <<4>>
    /\ Len(yielded[c]) = 2

----------------------------------------------------------------------------
(* The chunks with done = true among the first n chunks of the stream *)
DoneAmong(c, n) == {i \in 1..n : Done(yielded[c][i])}

(* C31: chat() and generate() consume their stream only until the first     *)
(* chunk with done = true: no chunk is ever yielded to them after a done    *)
(* chunk; when they return, the value is the first done chunk, or the last  *)
(* chunk received if there was none; and then the iterator has released its *)
(* reader and the client holds no token (isActive is false).                *)
C31_ChatStopsAtDone ==
  \A c \in Calls :
    chat[c].state # "none" =>
      /\ DoneAmong(c, Len(yielded[c]) - 1) = {}
      /\ chat[c].state = "returned" =>
           /\ yielded[c] # <<>>
           /\ chat[c].finalResponse = yielded[c][Len(yielded[c])]
           /\ ~readerLocked[c]
           /\ ~isActive

C31_Witness ==
  \E c \in Calls :
    /\ chat[c].state = "returned"
    /\ body0[c] = <<"DF", "LF", "DT", "LF", "DT", "LF">>
    /\ chunks[c] = <<6>>
    /\ Len(yielded[c]) = 2
    /\ Done(chat[c].finalResponse)

====
